---- MODULE Spec2Model ----
(***************************************************************************)
(* Model of the two book scrapers: src/api.py (Open Library, the "library" *)
(* source) and src/googleapi.py (Google Books, the "books-catalog"         *)
(* source).                                                                *)
(*                                                                         *)
(* Conventions.                                                            *)
(*  - A Python dict is a function whose DOMAIN is the set of keys present. *)
(*  - A Python str is a sequence of pieces, each piece one character of    *)
(*    data or one literal chunk of a template ("&lt;", ", ", "/id/"); a    *)
(*    list is a sequence.                                                  *)
(*  - A value that may be None is None == <<>> or Some(v) == <<v>>.        *)
(*  - A rating is an integer number of thousandths (4.0 is 4000); a score  *)
(*    before rounding is in thousandths, a rounded popularity is in        *)
(*    hundredths (47.5 is 4750).                                           *)
(***************************************************************************)
EXTENDS Integers, Sequences, FiniteSets, TLC

VARIABLES
  pc,        \* position of the running program, or the function a unit run called
  prog,      \* "library" (api.py) or "google" (googleapi.py)
  req,       \* what the user gave, by flags or at the prompts
  params,    \* the query parameters of the HTTP GET
  http,      \* what the provider answered
  results,   \* what the fetch returned
  books,     \* the normalized Book list
  htmlFile,  \* the HTML file on disk: None, or Some(document)
  csvFile,   \* the CSV file on disk: None, or Some(table)
  rec,       \* the argument of a unit run
  ret        \* the value a unit run returned

vars == <<pc, prog, req, params, http, results, books, htmlFile, csvFile, rec, ret>>

-----------------------------------------------------------------------------
(* Python values *)

None == <<>>

Some(v) == <<v>>

EmptyDict == [k \in {} |-> 0]

Has(d, k) == k \in DOMAIN d

\* dict.get(k, default)
Get(d, k, default) == IF Has(d, k) THEN d[k] ELSE default

\* dict.get(k): None when the key is absent
GetOpt(d, k) == IF Has(d, k) THEN Some(d[k]) ELSE None

\* truth value of dict.get(k) for a numeric field: absent (None) and 0 are false
TruthyNum(d, k) == Has(d, k) /\ d[k] # 0

\* truth value of dict.get(k) for a boolean field
TruthyBool(d, k) == Has(d, k) /\ d[k] = TRUE

\* truth value of dict.get(k) for a str or list field: absent and empty are false
TruthySeq(d, k) == Has(d, k) /\ d[k] # <<>>

Min(a, b) == IF a <= b THEN a ELSE b

\* round(score, 2): thousandths to the nearest hundredth, a tie to the even one
Round2(m) ==
  LET qu == m \div 10
      r == m % 10
  IN  IF r < 5 THEN qu
      ELSE IF r > 5 THEN qu + 1
      ELSE IF qu % 2 = 0 THEN qu ELSE qu + 1

-----------------------------------------------------------------------------
(* src/api.py: OpenLibraryBookScraper, the functions of one raw record *)

\* a slip: the rating count divided by 10 where the code divides by 100
RatingTerms_count_tenths(book) ==
  IF TruthyNum(book, "ratings_average") /\ TruthyNum(book, "ratings_count")
  THEN (book["ratings_average"] * 20) \div 5
       + Min((book["ratings_count"] * 1000) \div 10, 20 * 1000)
  ELSE 0

\* the rating block, lines 60-62, in thousandths
RatingTerms(book) ==
  IF TruthyNum(book, "ratings_average") /\ TruthyNum(book, "ratings_count")
  THEN (book["ratings_average"] * 20) \div 5
       + Min((book["ratings_count"] * 1000) \div 100, 20 * 1000)
  ELSE 0

\* sum([...]) of the three reading counters, lines 64-68
ReadingSum(book) ==
  Get(book, "want_to_read_count", 0)
  + Get(book, "currently_reading_count", 0)
  + Get(book, "already_read_count", 0)

\* the score before rounding, in thousandths
LibraryScore(book) ==
  RatingTerms(book)
  + Min((ReadingSum(book) * 1000) \div 50, 30 * 1000)
  + Min(Get(book, "edition_count", 0) * 2 * 1000, 20 * 1000)
  + (IF TruthyBool(book, "has_fulltext") THEN 5 * 1000 ELSE 0)
  + (IF TruthySeq(book, "lending_edition_s") THEN 5 * 1000 ELSE 0)

\* a slip: the edition term without its cap of 20
calculate_popularity_no_edition_cap(book) ==
  Round2(LibraryScore(book)
         - Min(Get(book, "edition_count", 0) * 2 * 1000, 20 * 1000)
         + Get(book, "edition_count", 0) * 2 * 1000)

\* calculate_popularity(book), in hundredths
calculate_popularity(book) == Round2(LibraryScore(book))

\* a slip: the lending flag tested before the full-text flag
get_availability_lending_first(book) ==
  IF TruthySeq(book, "lending_edition_s") THEN "Available for Lending"
  ELSE IF TruthyBool(book, "has_fulltext") THEN "Full Text Available"
  ELSE IF TruthyBool(book, "public_scan_b") THEN "Public Scan Available"
  ELSE IF TruthySeq(book, "ia") THEN "Archive.org Available"
  ELSE "Metadata Only"

get_availability(book) ==
  IF TruthyBool(book, "has_fulltext") THEN "Full Text Available"
  ELSE IF TruthySeq(book, "lending_edition_s") THEN "Available for Lending"
  ELSE IF TruthyBool(book, "public_scan_b") THEN "Public Scan Available"
  ELSE IF TruthySeq(book, "ia") THEN "Archive.org Available"
  ELSE "Metadata Only"

\* a slip: >= where the code compares with >
get_reading_level_inclusive(book) ==
  LET pages == Get(book, "number_of_pages_median", 0)
  IN  IF pages >= 800 THEN "Advanced"
      ELSE IF pages >= 400 THEN "Intermediate"
      ELSE "Beginner"

get_reading_level(book) ==
  LET pages == Get(book, "number_of_pages_median", 0)
  IN  IF pages > 800 THEN "Advanced"
      ELSE IF pages > 400 THEN "Intermediate"
      ELSE "Beginner"

\* str(n) for an int, as the characters of one piece
IntStr(n) == <<ToString(n)>>

CoversUrl == <<"https://covers.openlibrary.org/b">>

\* get_cover_url(cover_id, size="M"); cover_id is dict.get('cover_i')
get_cover_url(book) ==
  IF TruthyNum(book, "cover_i")
  THEN Some(CoversUrl \o <<"/id/">> \o IntStr(book["cover_i"]) \o <<"-M.jpg">>)
  ELSE None

format_book(book) ==
  [ key |-> Get(book, "key", <<>>),
    url |-> <<"https://openlibrary.org">> \o Get(book, "key", <<>>),
    title |-> Get(book, "title", <<"U", "n", "k", "n", "o", "w", "n">>),
    subtitle |-> Get(book, "subtitle", <<>>),
    authors |-> Get(book, "author_name", <<>>),
    first_year |-> GetOpt(book, "first_publish_year"),
    publishers |-> Get(book, "publisher", <<>>),
    pages |-> GetOpt(book, "number_of_pages_median"),
    isbn |-> Get(book, "isbn", <<>>),
    subjects |-> Get(book, "subject", <<>>),
    cover_url |-> get_cover_url(book),
    rating |-> GetOpt(book, "ratings_average"),
    rating_count |-> GetOpt(book, "ratings_count"),
    want_read |-> Get(book, "want_to_read_count", 0),
    reading_now |-> Get(book, "currently_reading_count", 0),
    have_read |-> Get(book, "already_read_count", 0),
    editions |-> Get(book, "edition_count", 0),
    popularity |-> calculate_popularity(book),
    availability |-> get_availability(book),
    level |-> get_reading_level(book) ]

-----------------------------------------------------------------------------
(* str operations *)

RECURSIVE Join(_, _)
\* sep.join(list)
Join(sep, list) ==
  IF list = <<>> THEN <<>>
  ELSE IF Len(list) = 1 THEN list[1]
  ELSE list[1] \o sep \o Join(sep, Tail(list))

\* s[:n] for n >= 0
Take(s, n) == SubSeq(s, 1, Min(n, Len(s)))

\* html.escape of one character (quote=True)
EscapeChar(c) ==
  IF c = "&" THEN "&amp;"
  ELSE IF c = "<" THEN "&lt;"
  ELSE IF c = ">" THEN "&gt;"
  ELSE IF c = "\"" THEN "&quot;"
  ELSE IF c = "'" THEN "&#x27;"
  ELSE c

\* html_module.escape(s)
Escape(s) == [i \in 1..Len(s) |-> EscapeChar(s[i])]

RECURSIVE FracDigits(_, _)
\* the digits of frac / scale, scale a power of ten
FracDigits(frac, scale) ==
  IF scale = 1 THEN <<>>
  ELSE <<frac \div (scale \div 10)>> \o FracDigits(frac % (scale \div 10), scale \div 10)

RECURSIVE StripZeros(_)
\* drop trailing zero digits, keeping at least one digit
StripZeros(ds) ==
  IF Len(ds) > 1 /\ ds[Len(ds)] = 0 THEN StripZeros(SubSeq(ds, 1, Len(ds) - 1))
  ELSE ds

\* str(x) for the float n / scale, n >= 0
FloatStr(n, scale) ==
  LET ds == StripZeros(FracDigits(n % scale, scale))
  IN  <<ToString(n \div scale), ".">> \o [i \in 1..Len(ds) |-> ToString(ds[i])]

-----------------------------------------------------------------------------
(* src/googleapi.py: the functions of one item or one book *)

\* the loop over info["industryIdentifiers"], lines 57-63: raises KeyError
\* on an entry without "type" or without "identifier"
RECURSIVE Identifiers(_, _)
Identifiers(ids, b) ==
  IF ids = <<>> THEN [raised |-> FALSE, book |-> b]
  ELSE LET id == Head(ids)
       IN  IF ~Has(id, "type") \/ ~Has(id, "identifier") THEN [raised |-> TRUE, book |-> b]
           ELSE IF id["type"] = "ISBN_13"
             THEN Identifiers(Tail(ids), [b EXCEPT !.isbn_13 = Some(id["identifier"])])
           ELSE IF id["type"] = "ISBN_10"
             THEN Identifiers(Tail(ids), [b EXCEPT !.isbn_10 = Some(id["identifier"])])
           ELSE Identifiers(Tail(ids),
                            [b EXCEPT !.other_ids = Append(@, id["identifier"])])

\* the body of the loop over data['items'], lines 33-66
Reshape(item) ==
  LET info == Get(item, "volumeInfo", EmptyDict)
      sale == Get(item, "saleInfo", EmptyDict)
      b == [ title |-> Get(info, "title", <<>>),
             subtitle |-> Get(info, "subtitle", <<>>),
             authors |-> Get(info, "authors", <<>>),
             publisher |-> GetOpt(info, "publisher"),
             publishedDate |-> GetOpt(info, "publishedDate"),
             pageCount |-> GetOpt(info, "pageCount"),
             categories |-> Get(info, "categories", <<>>),
             description |-> Get(info, "description", <<>>),
             language |-> GetOpt(info, "language"),
             isbn_10 |-> None,
             isbn_13 |-> None,
             other_ids |-> <<>>,
             previewLink |-> GetOpt(info, "previewLink"),
             infoLink |-> GetOpt(info, "infoLink"),
             image_url |-> GetOpt(Get(info, "imageLinks", EmptyDict), "thumbnail"),
             avg_rating |-> GetOpt(info, "averageRating"),
             ratings_count |-> GetOpt(info, "ratingsCount"),
             saleability |-> GetOpt(sale, "saleability"),
             price |-> None ]
      withIds == IF Has(info, "industryIdentifiers")
                 THEN Identifiers(info["industryIdentifiers"], b)
                 ELSE [raised |-> FALSE, book |-> b]
  IN  IF withIds.raised THEN withIds
      ELSE IF Has(sale, "retailPrice") /\ Has(sale["retailPrice"], "amount")
        THEN [raised |-> FALSE,
              book |-> [withIds.book EXCEPT !.price = Some(sale["retailPrice"]["amount"])]]
      ELSE withIds

\* truth value of an optional number: None and 0 are false
TruthyOptNum(x) == x # None /\ x[1] # 0

\* the score before rounding, in thousandths, lines 74-82
GoogleScore(book) ==
  (IF TruthyOptNum(book.avg_rating)
     THEN (Min(book.avg_rating[1], 5 * 1000) * 50) \div 5 ELSE 0)
  + (IF TruthyOptNum(book.ratings_count)
       THEN Min((book.ratings_count[1] * 1000) \div 10, 30 * 1000) ELSE 0)
  + (IF TruthyOptNum(book.pageCount)
       THEN Min((book.pageCount[1] * 1000) \div 100, 10 * 1000) ELSE 0)
  + (IF book.categories # <<>> THEN 10 * 1000 ELSE 0)

\* a slip: the rating not clamped to 5
google_calculate_popularity_unclamped(book) ==
  Round2(GoogleScore(book)
         + (IF TruthyOptNum(book.avg_rating) /\ book.avg_rating[1] > 5 * 1000
              THEN ((book.avg_rating[1] - 5 * 1000) * 50) \div 5 ELSE 0))

\* calculate_popularity(book) of googleapi.py, in hundredths
google_calculate_popularity(book) == Round2(GoogleScore(book))

-----------------------------------------------------------------------------
(* src/api.py: the two serializers *)

\* {x or default} for an optional int
IntOr(x, default) == IF TruthyOptNum(x) THEN IntStr(x[1]) ELSE default

\* {x or default} for an optional float held in thousandths
FloatOr(x, default) == IF TruthyOptNum(x) THEN FloatStr(x[1], 1000) ELSE default

\* one card of generate_html, lines 117-139, as its filled-in slots
LibraryCard(book) ==
  LET authors == IF book.authors # <<>> THEN Join(<<", ">>, book.authors)
                 ELSE <<"Unknown">>
      cover_html == IF book.cover_url # None /\ book.cover_url[1] # <<>>
                    THEN <<"<img src=\"">> \o book.cover_url[1] \o <<"\">">>
                    ELSE <<"<div class=\"no-cover\">No Cover</div>">>
      subjects_html == IF book.subjects # <<>> THEN Join(<<", ">>, Take(book.subjects, 5))
                       ELSE <<"None">>
  IN  [ score |-> FloatStr(book.popularity, 100),
        title |-> Escape(book.title),
        authors |-> Escape(authors),
        cover |-> cover_html,
        year |-> IntOr(book.first_year, <<"Unknown">>),
        pages |-> IntOr(book.pages, <<"Unknown">>),
        rating |-> FloatOr(book.rating, <<"N/A">>),
        rating_count |-> IntOr(book.rating_count, <<"0">>),
        editions |-> IntStr(book.editions),
        level |-> <<book.level>>,
        status |-> <<book.availability>>,
        want_read |-> IntStr(book.want_read),
        subjects |-> Escape(subjects_html),
        href |-> book.url ]

RECURSIVE LibraryCards(_, _)
\* the loop "for book in books: cards_html += ...", lines 115-139
LibraryCards(bs, cards_html) ==
  IF bs = <<>> THEN cards_html
  ELSE LibraryCards(Tail(bs), Append(cards_html, LibraryCard(Head(bs))))

\* generate_html(books, query, total): the document as header slots and cards
generate_html(bs, query, total) ==
  [ query |-> IF query # <<>> THEN Escape(query) ELSE <<"All Books">>,
    total |-> total,
    showing |-> Len(bs),
    cards |-> LibraryCards(bs, <<>>) ]

\* one row of save_csv, lines 238-249
LibraryRow(book) ==
  [ title |-> book.title,
    authors |-> Join(<<"; ">>, book.authors),
    first_year |-> book.first_year,
    publishers |-> Join(<<"; ">>, Take(book.publishers, 2)),
    pages |-> book.pages,
    rating |-> book.rating,
    popularity |-> book.popularity,
    availability |-> book.availability,
    level |-> book.level,
    url |-> book.url ]

RECURSIVE LibraryRows(_, _)
\* the loop "for book in books: writer.writerow(row)", lines 237-250
LibraryRows(bs, rows) ==
  IF bs = <<>> THEN rows
  ELSE LibraryRows(Tail(bs), Append(rows, LibraryRow(Head(bs))))

\* save_csv(books, filename): the file written, None when books is empty
save_csv(bs) ==
  IF bs = <<>> THEN None
  ELSE Some([ header |-> <<"title", "authors", "first_year", "publishers", "pages",
                          "rating", "popularity", "availability", "level", "url">>,
              rows |-> LibraryRows(bs, <<>>) ])

-----------------------------------------------------------------------------
(* src/googleapi.py: the two serializers *)

DescLimit == 300

\* {x} for an optional int: str(None) is "None"
OptIntStr(x) == IF x = None THEN <<"None">> ELSE IntStr(x[1])

\* {x} for an optional str
OptStr(x) == IF x = None THEN <<"None">> ELSE x[1]

\* truth value of an optional str: None and "" are false
TruthyOptStr(x) == x # None /\ x[1] # <<>>

\* x or "" for an optional str
StrOrEmpty(x) == IF TruthyOptStr(x) THEN x[1] ELSE <<>>

\* filter(None, [a, b]) of two optional strs
FilterNone(a, b) ==
  (IF TruthyOptStr(a) THEN <<a[1]>> ELSE <<>>) \o (IF TruthyOptStr(b) THEN <<b[1]>> ELSE <<>>)

\* make_card(book), lines 105-125, as its filled-in slots (the star after the
\* rating is written "*")
make_card(book) ==
  LET authors == IF book.authors # <<>> THEN Join(<<", ">>, book.authors)
                 ELSE <<"Unknown">>
      cats == [i \in 1..Len(Take(book.categories, 5)) |-> Escape(book.categories[i])]
      rating == IF TruthyOptNum(book.avg_rating)
                THEN FloatStr(book.avg_rating[1], 1000) \o <<"* (">>
                     \o OptIntStr(book.ratings_count) \o <<")">>
                ELSE <<"No ratings">>
      desc == Take(book.description, DescLimit)
              \o (IF Len(book.description) > DescLimit THEN <<"...">> ELSE <<>>)
      isbns == Join(<<" / ">>, FilterNone(book.isbn_10, book.isbn_13))
      href == IF TruthyOptStr(book.infoLink) THEN book.infoLink[1]
              ELSE OptStr(book.previewLink)
      img == IF TruthyOptStr(book.image_url)
             THEN <<"<img src=\"">> \o book.image_url[1] \o <<"\" alt=\"Cover\">">>
             ELSE <<"<div class='cover'>No Cover</div>">>
  IN  [ score |-> FloatStr(google_calculate_popularity(book), 100),
        cover |-> img,
        title |-> Escape(book.title),
        authors |-> Escape(authors),
        publisher |-> Escape(StrOrEmpty(book.publisher)),
        publishedDate |-> Escape(StrOrEmpty(book.publishedDate)),
        href |-> href,
        cats |-> cats,
        pages |-> IntOr(book.pageCount, <<"?">>),
        rating |-> rating,
        isbns |-> isbns,
        desc |-> desc ]

RECURSIVE GoogleCards_reversed(_)
\* a slip: each card put in front of the ones before it
GoogleCards_reversed(bs) ==
  IF bs = <<>> THEN <<>> ELSE GoogleCards_reversed(Tail(bs)) \o <<make_card(Head(bs))>>

RECURSIVE GoogleCards(_)
\* "".join(make_card(b) for b in books), line 139
GoogleCards(bs) ==
  IF bs = <<>> THEN <<>> ELSE <<make_card(Head(bs))>> \o GoogleCards(Tail(bs))

\* save_html(books, q, total): the document written
save_html(bs, q, total) ==
  [ query |-> Escape(q),
    total |-> total,
    showing |-> Len(bs),
    cards |-> GoogleCards(bs) ]

\* '; '.join(b[k]) for a list field of strs
JoinList(list) == Join(<<"; ">>, list)

\* one row of save_csv of googleapi.py, lines 133-134
GoogleRow(b) ==
  [ title |-> b.title,
    subtitle |-> b.subtitle,
    authors |-> JoinList(b.authors),
    publisher |-> b.publisher,
    publishedDate |-> b.publishedDate,
    pageCount |-> b.pageCount,
    categories |-> JoinList(b.categories),
    language |-> b.language,
    isbn_10 |-> b.isbn_10,
    isbn_13 |-> b.isbn_13,
    avg_rating |-> b.avg_rating,
    ratings_count |-> b.ratings_count,
    previewLink |-> b.previewLink,
    infoLink |-> b.infoLink,
    popularity |-> google_calculate_popularity(b) ]

RECURSIVE GoogleRows(_, _)
\* the loop "for b in books: w.writerow(row)", lines 132-135
GoogleRows(bs, rows) ==
  IF bs = <<>> THEN rows
  ELSE GoogleRows(Tail(bs), Append(rows, GoogleRow(Head(bs))))

\* save_csv(books, filename) of googleapi.py: the file written
google_save_csv(bs) ==
  [ header |-> <<"title", "subtitle", "authors", "publisher", "publishedDate",
                 "pageCount", "categories", "language", "isbn_10", "isbn_13",
                 "avg_rating", "ratings_count", "previewLink", "infoLink",
                 "popularity">>,
    rows |-> GoogleRows(bs, <<>>) ]

-----------------------------------------------------------------------------
(* src/api.py: search_books, run_interactive and main *)

\* a slip: the language clause quoted like the others
QueryParts_language_quoted(query, author, title, subject, language) ==
  (IF query # <<>> THEN <<query>> ELSE <<>>)
  \o (IF author # <<>> THEN << <<"author:\"">> \o author \o <<"\"">> >> ELSE <<>>)
  \o (IF title # <<>> THEN << <<"title:\"">> \o title \o <<"\"">> >> ELSE <<>>)
  \o (IF subject # <<>> THEN << <<"subject:\"">> \o subject \o <<"\"">> >> ELSE <<>>)
  \o (IF language # <<>> THEN << <<"language:\"">> \o language \o <<"\"">> >> ELSE <<>>)

\* query_parts, lines 36-41
QueryParts(query, author, title, subject, language) ==
  (IF query # <<>> THEN <<query>> ELSE <<>>)
  \o (IF author # <<>> THEN << <<"author:\"">> \o author \o <<"\"">> >> ELSE <<>>)
  \o (IF title # <<>> THEN << <<"title:\"">> \o title \o <<"\"">> >> ELSE <<>>)
  \o (IF subject # <<>> THEN << <<"subject:\"">> \o subject \o <<"\"">> >> ELSE <<>>)
  \o (IF language # <<>> THEN << <<"language:">> \o language >> ELSE <<>>)

\* params['q'], line 43
BuildQuery(query, author, title, subject, language) ==
  LET query_parts == QueryParts(query, author, title, subject, language)
  IN  IF query_parts # <<>> THEN Join(<<" AND ">>, query_parts) ELSE <<"*">>

\* params of search_books, lines 31-43
LibraryParams(query, author, title, subject, limit, language) ==
  [ limit |-> Min(limit, 100),
    q |-> BuildQuery(query, author, title, subject, language) ]

\* the try block of search_books, lines 46-50: raises on a transport error,
\* on a non-2xx status (raise_for_status) and on a body that is not JSON
SearchTry(resp) ==
  IF resp.outcome = "ok"
  THEN [raised |-> FALSE, value |-> [docs |-> resp.docs, numFound |-> resp.numFound]]
  ELSE [raised |-> TRUE, value |-> [docs |-> <<>>, numFound |-> 0]]

\* search_books: the try block under "except Exception", lines 45-53
search_books(resp) ==
  LET t == SearchTry(resp)
  IN  IF t.raised THEN [raised |-> FALSE, value |-> [docs |-> <<>>, numFound |-> 0]]
      ELSE t

\* main's dispatch, line 302
LibraryInteractive(r) == r.interactive \/ r.query = <<>>

\* the arguments search_books is called with, lines 268 and 305
LibraryArgs(r) ==
  IF LibraryInteractive(r)
  THEN [query |-> r.query, author |-> r.author, title |-> r.title,
        subject |-> r.subject, limit |-> r.limit, language |-> <<>>]
  ELSE [query |-> r.query, author |-> r.author, title |-> r.title,
        subject |-> <<>>, limit |-> r.limit, language |-> <<>>]

\* a slip: the run goes on without docs
LibraryHasDocs_always(res) == TRUE

\* "if not results['docs']", lines 270 and 306
LibraryHasDocs(res) == res.docs # <<>>

\* the query echoed in the header, lines 275 and 311
SearchQuery(r) ==
  IF LibraryInteractive(r)
  THEN Join(<<" ">>, SelectSeq(<<r.query, r.author, r.title, r.subject>>,
                              LAMBDA x : x # <<>>))
  ELSE r.query

-----------------------------------------------------------------------------
(* src/googleapi.py: fetch_books, run_interactive and main *)

RECURSIVE ReshapeAll(_, _)
\* the loop "for item in data['items'][:limit]: ... books.append(b)"
ReshapeAll(items, bs) ==
  IF items = <<>> THEN [raised |-> FALSE, value |-> bs]
  ELSE LET r == Reshape(Head(items))
       IN  IF r.raised THEN [raised |-> TRUE, value |-> bs]
           ELSE ReshapeAll(Tail(items), Append(bs, r.book))

\* params of fetch_books, lines 14-24
GoogleParams(query, limit, api_key, langRestrict) ==
  [ q |-> query,
    maxResults |-> Min(Min(limit, 40), 40),
    printType |-> <<"books">>,
    langRestrict |-> IF TruthyOptStr(langRestrict) THEN langRestrict ELSE None,
    key |-> IF TruthyOptStr(api_key) THEN api_key ELSE None ]

\* the try block of fetch_books, lines 26-68
FetchTry(limit, resp) ==
  IF resp.outcome # "ok" THEN [raised |-> TRUE, value |-> <<>>]
  ELSE IF resp.items = None THEN [raised |-> FALSE, value |-> <<>>]
  ELSE ReshapeAll(Take(resp.items[1], limit), <<>>)

\* a slip: no except clause, the failure leaves fetch_books
fetch_books_uncaught(limit, resp) == FetchTry(limit, resp)

\* fetch_books: the try block under "except Exception", lines 25-71
fetch_books(limit, resp) ==
  LET t == FetchTry(limit, resp)
  IN  IF t.raised THEN [raised |-> FALSE, value |-> <<>>] ELSE t

\* main's dispatch, line 197
GoogleInteractive(r) == r.interactive \/ r.query = <<>>

\* the limit fetch_books is called with, lines 173-176 and 200
GoogleLimit(r) == IF GoogleInteractive(r) THEN Min(r.limit, 40) ELSE r.limit

\* "if not books", lines 181 and 201
GoogleHasBooks(bs) == bs # <<>>

\* whether the run writes the CSV file, lines 185 and 205-206
GoogleWritesCsv(r) == GoogleInteractive(r) \/ TruthyOptStr(r.csv)

-----------------------------------------------------------------------------
(* Bounds and the inputs drawn *)

\* the longest docs / items list a provider answers with
MaxDocs == 2

\* edition_count ranges over 0..MaxEditions (the cap of 20 is passed at 10)
MaxEditions == 11

\* number_of_pages_median ranges over 0..MaxPages (the thresholds are 400 and 800)
MaxPages == 802

SeqsUpTo(S, n) == UNION {[1..k -> S] : k \in 0..n}

\* a dict with key k when opt is Some(v), no key when opt is None
Field(k, opt) == IF opt = None THEN EmptyDict ELSE k :> opt[1]

Opt(S) == {None} \cup {Some(v) : v \in S}

\* the raw record of the library end-to-end scenario
ScenarioRecord ==
  [ title |-> <<"T">>, author_name |-> << <<"A">> >>, ratings_average |-> 4000,
    ratings_count |-> 200, edition_count |-> 3, has_fulltext |-> TRUE ]

\* raw records that vary what calculate_popularity reads
PopularityRecords ==
  { Field("ratings_average", ra) @@ Field("ratings_count", rc)
    @@ Field("want_to_read_count", w) @@ Field("currently_reading_count", c)
    @@ Field("already_read_count", a) @@ Field("edition_count", e)
    @@ Field("has_fulltext", f) @@ Field("lending_edition_s", l) :
      ra \in Opt({0, 3873, 4000}), rc \in Opt({0, 200, 2500}),
      w \in Opt({40, 1600}), c \in Opt({13}), a \in Opt({7}),
      e \in Opt(0..MaxEditions), f \in Opt({TRUE}), l \in Opt({<<"O", "L">>}) }

\* raw records that vary what get_availability reads
AvailabilityRecords ==
  { Field("has_fulltext", f) @@ Field("lending_edition_s", l)
    @@ Field("public_scan_b", p) @@ Field("ia", i) :
      f \in Opt(BOOLEAN), l \in Opt({<<>>, <<"O", "L">>}),
      p \in Opt(BOOLEAN), i \in Opt({<<>>, << <<"i", "a">> >>}) }

\* raw records that vary what get_reading_level reads
PageRecords == { Field("number_of_pages_median", n) : n \in Opt(0..MaxPages) }

LibraryRecords ==
  {ScenarioRecord} \cup PopularityRecords \cup AvailabilityRecords \cup PageRecords

\* the items of the books-catalog source a unit run scores
ScoredItems ==
  { [ volumeInfo |-> Field("averageRating", r) @@ Field("ratingsCount", n)
                     @@ Field("pageCount", pg) @@ Field("categories", c) ] :
      r \in Opt({0, 3000, 4250, 5500}), n \in Opt({0, 50, 299, 300, 450}),
      pg \in Opt({0, 250, 1000, 1250}),
      c \in Opt({<<>>, << <<"F", "i", "c", "t", "i", "o", "n">> >>,
                 << <<"A">>, <<"B">> >>}) }

\* facet texts: empty, plain, and with characters html.escape rewrites
Texts == { <<>>, <<"a">>, <<"<", "b", ">">>, <<"\"", "&", "'">> }

Tolkien == <<"T", "o", "l", "k", "i", "e", "n">>

Hobbit == <<"H", "o", "b", "b", "i", "t">>

\* the arguments a unit run builds a query from
QueryInputs ==
  { [query |-> qu, author |-> a, title |-> t, subject |-> su, language |-> l] :
      qu \in Texts, a \in Texts \cup {Tolkien}, t \in Texts \cup {Hobbit},
      su \in Texts, l \in {<<>>, <<"e", "n">>} }

\* the raw records the library provider answers with
LibraryDocs ==
  { ScenarioRecord,
    [ key |-> <<"/works/OL2W">>, title |-> <<"<", "b", ">">>,
      author_name |-> << <<"\"", "&">>, <<"A">> >>, subject |-> << <<"'", "<">> >>,
      publisher |-> << <<"P">>, <<"Q">>, <<"R">> >>, cover_i |-> 12,
      first_publish_year |-> 1937, number_of_pages_median |-> 801,
      want_to_read_count |-> 40 ],
    EmptyDict }

LibraryResponses ==
  { [outcome |-> o, docs |-> <<>>, numFound |-> 0] : o \in {"network", "status", "json"} }
  \cup { [outcome |-> "ok", docs |-> d, numFound |-> Len(d) + more] :
           d \in SeqsUpTo(LibraryDocs, MaxDocs), more \in {0, 7} }

\* the items the books-catalog provider answers with; the third has an
\* identifier without "type", which the reshaping loop cannot read
GoogleItems ==
  { [ volumeInfo |-> [ title |-> <<"T">>, authors |-> << <<"A">> >>,
                       averageRating |-> 3000, ratingsCount |-> 50, pageCount |-> 250,
                       categories |-> << <<"F", "i", "c", "t", "i", "o", "n">> >> ] ],
    [ volumeInfo |-> [ title |-> <<"<", "b", ">">>, authors |-> << <<"\"", "&">> >>,
                       categories |-> << <<"'", "<">> >>, publisher |-> <<"&">>,
                       description |-> <<"<", "s", ">">>,
                       infoLink |-> <<"http://g/2">>,
                       imageLinks |-> [thumbnail |-> <<"http://g/2.jpg">>],
                       averageRating |-> 4250,
                       industryIdentifiers |->
                         << [type |-> "ISBN_13", identifier |-> <<"9", "7", "8">>],
                            [type |-> "ISBN_10", identifier |-> <<"0", "<">>],
                            [type |-> "OTHER", identifier |-> <<"U">>] >> ],
      saleInfo |-> [saleability |-> <<"FOR_SALE">>, retailPrice |-> [amount |-> 9]] ],
    [ volumeInfo |-> [ title |-> <<"M">>,
                       industryIdentifiers |-> << [identifier |-> <<"1">>] >> ] ],
    EmptyDict }

GoogleResponses ==
  { [outcome |-> o, items |-> None] : o \in {"network", "status", "json", "ok"} }
  \cup { [outcome |-> "ok", items |-> Some(d)] : d \in SeqsUpTo(GoogleItems, MaxDocs) }

LibraryRequests ==
  [ interactive : BOOLEAN, query : {<<>>, <<"a">>, <<"<", "b", ">">>},
    author : {<<>>, <<"\"", "&", "'">>}, title : {<<>>},
    subject : {<<>>, <<"s">>}, limit : {1, 10} ]

GoogleRequests ==
  [ interactive : BOOLEAN, query : {<<>>, <<"a">>, <<"<", "b", ">">>},
    limit : {0, 1, 10}, lang : {None}, api_key : {None},
    csv : {None, Some(<<"out.csv">>)} ]

-----------------------------------------------------------------------------
(* The runs of the two programs *)

NoParams == EmptyDict

NoResponse == EmptyDict

Idle ==
  /\ params = NoParams /\ http = NoResponse /\ results = None /\ books = <<>>
  /\ htmlFile = None /\ csvFile = None /\ rec = EmptyDict /\ ret = None

Init ==
  /\ pc = "start"
  /\ \/ prog = "library" /\ req \in LibraryRequests
     \/ prog = "google" /\ req \in GoogleRequests
  /\ Idle

\* api.py: search_books as called from run_interactive (268) or main (305)
LibrarySearch ==
  /\ pc = "start" /\ prog = "library"
  /\ \E resp \in LibraryResponses :
       LET a == LibraryArgs(req)
           p == LibraryParams(a.query, a.author, a.title, a.subject, a.limit, a.language)
           r == search_books(resp)
       IN  /\ Len(resp.docs) <= p.limit
           /\ params' = p
           /\ http' = resp
           /\ results' = IF r.raised THEN None ELSE Some(r.value)
           /\ pc' = IF r.raised THEN "crashed" ELSE "fetched"
  /\ UNCHANGED <<prog, req, books, htmlFile, csvFile, rec, ret>>

\* api.py: no docs, lines 270-272 and the false branch of 306
LibraryNoBooks ==
  /\ pc = "fetched" /\ prog = "library"
  /\ ~LibraryHasDocs(results[1])
  /\ pc' = "done"
  /\ UNCHANGED <<prog, req, params, http, results, books, htmlFile, csvFile, rec, ret>>

\* api.py: books = [format_book(b) for b in results['docs']], lines 274 and 307
LibraryFormat ==
  /\ pc = "fetched" /\ prog = "library"
  /\ LibraryHasDocs(results[1])
  /\ books' = [i \in 1..Len(results[1].docs) |-> format_book(results[1].docs[i])]
  /\ pc' = "formatted"
  /\ UNCHANGED <<prog, req, params, http, results, htmlFile, csvFile, rec, ret>>

\* a slip: the HTML rendering sorts the list it was given by popularity,
\* leaving the first Book out of place for the CSV rendering
LibraryWriteHtml_mutates ==
  /\ pc = "formatted" /\ prog = "library"
  /\ htmlFile' = Some(generate_html(books, SearchQuery(req), results[1].numFound))
  /\ books' = Tail(books) \o <<Head(books)>>
  /\ pc' = "html"
  /\ UNCHANGED <<prog, req, params, http, results, csvFile, rec, ret>>

\* api.py: the HTML file, lines 281-282 and 310-311
LibraryWriteHtml ==
  /\ pc = "formatted" /\ prog = "library"
  /\ htmlFile' = Some(generate_html(books, SearchQuery(req), results[1].numFound))
  /\ pc' = "html"
  /\ UNCHANGED <<prog, req, params, http, results, books, csvFile, rec, ret>>

\* api.py: save_csv, lines 284 and 312
LibraryWriteCsv ==
  /\ pc = "html" /\ prog = "library"
  /\ csvFile' = save_csv(books)
  /\ pc' = "done"
  /\ UNCHANGED <<prog, req, params, http, results, books, htmlFile, rec, ret>>

\* googleapi.py: run_interactive without a query, lines 169-171
GoogleQueryRequired ==
  /\ pc = "start" /\ prog = "google"
  /\ GoogleInteractive(req) /\ req.query = <<>>
  /\ pc' = "done"
  /\ UNCHANGED <<prog, req, params, http, results, books, htmlFile, csvFile, rec, ret>>

\* googleapi.py: fetch_books as called from run_interactive (180) or main (200)
GoogleFetch ==
  /\ pc = "start" /\ prog = "google"
  /\ req.query # <<>>
  /\ \E resp \in GoogleResponses :
       LET limit == GoogleLimit(req)
           r == fetch_books(limit, resp)
       IN  /\ params' = GoogleParams(req.query, limit, req.api_key, req.lang)
           /\ http' = resp
           /\ results' = IF r.raised THEN None ELSE Some(r.value)
           /\ books' = IF r.raised THEN <<>> ELSE r.value
           /\ pc' = IF r.raised THEN "crashed" ELSE "fetched"
  /\ UNCHANGED <<prog, req, htmlFile, csvFile, rec, ret>>

\* googleapi.py: no books, lines 181-183 and 201-203
GoogleNoBooks ==
  /\ pc = "fetched" /\ prog = "google"
  /\ ~GoogleHasBooks(books)
  /\ pc' = "done"
  /\ UNCHANGED <<prog, req, params, http, results, books, htmlFile, csvFile, rec, ret>>

\* googleapi.py: save_html(books, query, len(books)), lines 184 and 204
GoogleSaveHtml ==
  /\ pc = "fetched" /\ prog = "google"
  /\ GoogleHasBooks(books)
  /\ htmlFile' = Some(save_html(books, req.query, Len(books)))
  /\ pc' = "html"
  /\ UNCHANGED <<prog, req, params, http, results, books, csvFile, rec, ret>>

\* googleapi.py: save_csv, line 185, and line 206 under --csv
GoogleSaveCsv ==
  /\ pc = "html" /\ prog = "google"
  /\ GoogleWritesCsv(req)
  /\ csvFile' = Some(google_save_csv(books))
  /\ pc' = "done"
  /\ UNCHANGED <<prog, req, params, http, results, books, htmlFile, rec, ret>>

\* googleapi.py: main without --csv, line 205
GoogleSkipCsv ==
  /\ pc = "html" /\ prog = "google"
  /\ ~GoogleWritesCsv(req)
  /\ pc' = "done"
  /\ UNCHANGED <<prog, req, params, http, results, books, htmlFile, csvFile, rec, ret>>

Next ==
  \/ LibrarySearch
  \/ LibraryNoBooks
  \/ LibraryFormat
  \/ LibraryWriteHtml
  \/ LibraryWriteCsv
  \/ GoogleQueryRequired
  \/ GoogleFetch
  \/ GoogleNoBooks
  \/ GoogleSaveHtml
  \/ GoogleSaveCsv
  \/ GoogleSkipCsv

Spec == Init /\ [][Next]_vars

-----------------------------------------------------------------------------
(* Unit runs: one function applied to one argument *)

InitUnit ==
  /\ pc = "call"
  /\ req = EmptyDict /\ params = NoParams /\ http = NoResponse /\ results = None
  /\ books = <<>> /\ htmlFile = None /\ csvFile = None /\ ret = None

Return(name, value) ==
  /\ pc = "call"
  /\ pc' = name
  /\ ret' = Some(value)
  /\ UNCHANGED <<prog, req, params, http, results, books, htmlFile, csvFile, rec>>

InitLibrary == InitUnit /\ prog = "library" /\ rec \in LibraryRecords

CallCalculatePopularity == Return("calculate_popularity", calculate_popularity(rec))

CallGetAvailability == Return("get_availability", get_availability(rec))

CallGetReadingLevel == Return("get_reading_level", get_reading_level(rec))

CallFormatBook == Return("format_book", format_book(rec))

NextLibrary ==
  \/ CallCalculatePopularity
  \/ CallGetAvailability
  \/ CallGetReadingLevel
  \/ CallFormatBook

SpecLibrary == InitLibrary /\ [][NextLibrary]_vars

InitGoogle == InitUnit /\ prog = "google" /\ rec \in ScoredItems

\* fetch_books reshapes the item, the serializers score the book
CallGoogleCalculatePopularity ==
  Return("calculate_popularity", google_calculate_popularity(Reshape(rec).book))

CallMakeCard == Return("make_card", make_card(Reshape(rec).book))

NextGoogle ==
  \/ CallGoogleCalculatePopularity
  \/ CallMakeCard

SpecGoogle == InitGoogle /\ [][NextGoogle]_vars

InitQuery == InitUnit /\ prog = "library" /\ rec \in QueryInputs

\* the query search_books sends, with every facet an argument
CallBuildQuery ==
  Return("search_books",
         LibraryParams(rec.query, rec.author, rec.title, rec.subject, 10, rec.language).q)

NextQuery == CallBuildQuery

SpecQuery == InitQuery /\ [][NextQuery]_vars

-----------------------------------------------------------------------------
(* Claims about the functions of one record *)

\* a number field of a raw record, 0 when the key is absent
Num(book, k) == IF Has(book, k) THEN book[k] ELSE 0

\* whether a str or list flag of a raw record is set: present and not empty
SeqSet(book, k) == Has(book, k) /\ book[k] # <<>>

\* whether a boolean flag of a raw record is set
BoolSet(book, k) == Has(book, k) /\ book[k]

\* the terms every reading of C3 shares: reading counters, editions, the two flags
SharedLibraryTerms(book) ==
  Min((Num(book, "want_to_read_count") + Num(book, "currently_reading_count")
       + Num(book, "already_read_count")) * 20, 30000)
  + Min(Num(book, "edition_count") * 2000, 20000)
  + (IF BoolSet(book, "has_fulltext") THEN 5000 ELSE 0)
  + (IF SeqSet(book, "lending_edition_s") THEN 5000 ELSE 0)

\* rating and rating count both present (and not zero)
BothRatings(book) == Num(book, "ratings_average") # 0 /\ Num(book, "ratings_count") # 0

\* C3 as stated: the library score is rating/5 x 20 (only if rating and rating
\* count are both present) plus min(rating-count/100, 20) whether or not a
\* rating is present, plus the reading, edition and flag terms, rounded to 2
\* decimals.
C3_AsStated ==
  pc = "calculate_popularity" =>
    ret[1] = Round2((IF BothRatings(rec) THEN rec["ratings_average"] * 4 ELSE 0)
                    + Min(Num(rec, "ratings_count") * 10, 20000)
                    + SharedLibraryTerms(rec))

\* C3 as amended: the library score is rating/5 x 20 plus min(rating-count/100,
\* 20), both only if rating and rating count are both present and not zero,
\* plus min(reading counters/50, 30), plus min(edition_count x 2, 20), plus 5
\* for full text, plus 5 for a lending edition, rounded to 2 decimals; absent
\* counters contribute 0.
C3_LibraryScore ==
  pc = "calculate_popularity" =>
    ret[1] = Round2((IF BothRatings(rec)
                       THEN rec["ratings_average"] * 4
                            + Min(rec["ratings_count"] * 10, 20000)
                       ELSE 0)
                    + SharedLibraryTerms(rec))

\* a record with a rating count of 200 and no rating has been scored: the count
\* term is left out
C3_Witness ==
  /\ pc = "calculate_popularity"
  /\ ~Has(rec, "ratings_average") /\ Has(rec, "ratings_count") /\ rec["ratings_count"] = 200
  /\ Has(rec, "edition_count") /\ rec["edition_count"] = MaxEditions
  /\ DOMAIN rec = {"ratings_count", "edition_count"}
  /\ ret = Some(2000)

\* C5 as stated: format_book of the scenario record gives popularity 47.0,
\* availability "Full Text Available" and level "Beginner".
C5_AsStated ==
  (pc = "format_book" /\ rec = ScenarioRecord) =>
    /\ ret[1].popularity = 4700
    /\ ret[1].availability = "Full Text Available"
    /\ ret[1].level = "Beginner"

\* C5 as amended: format_book of the scenario record completes and gives
\* popularity 29.0 (16 + 2 + 0 + 6 + 5), availability "Full Text Available" and
\* level "Beginner".
C5_Scenario ==
  (pc = "format_book" /\ rec = ScenarioRecord) =>
    /\ ret[1].popularity = 2900
    /\ ret[1].availability = "Full Text Available"
    /\ ret[1].level = "Beginner"
    /\ ret[1].title = <<"T">> /\ ret[1].authors = << <<"A">> >>
    /\ ret[1].pages = None

\* format_book has returned the Book of the scenario record
C5_Witness == pc = "format_book" /\ rec = ScenarioRecord /\ ret # None

AvailabilityLabels ==
  { "Full Text Available", "Available for Lending", "Public Scan Available",
    "Archive.org Available", "Metadata Only" }

\* C6: get_availability returns one of the five labels for every combination
\* of the four flags, decided by the first flag set in the order has_fulltext,
\* lending_edition_s, public_scan_b, ia; with none set it is "Metadata Only".
C6_Availability ==
  pc = "get_availability" =>
    LET f == BoolSet(rec, "has_fulltext")
        l == SeqSet(rec, "lending_edition_s")
        s == BoolSet(rec, "public_scan_b")
        i == SeqSet(rec, "ia")
    IN  /\ ret[1] \in AvailabilityLabels
        /\ f => ret[1] = "Full Text Available"
        /\ (~f /\ l) => ret[1] = "Available for Lending"
        /\ (~f /\ ~l /\ s) => ret[1] = "Public Scan Available"
        /\ (~f /\ ~l /\ ~s /\ i) => ret[1] = "Archive.org Available"
        /\ (~f /\ ~l /\ ~s /\ ~i) => ret[1] = "Metadata Only"

\* a record with all four flags set has been classified by the first
C6_Witness ==
  /\ pc = "get_availability"
  /\ BoolSet(rec, "has_fulltext") /\ SeqSet(rec, "lending_edition_s")
  /\ BoolSet(rec, "public_scan_b") /\ SeqSet(rec, "ia")
  /\ ret = Some("Full Text Available")

\* the level C7 states for a record
StatedLevel(book) ==
  IF ~Has(book, "number_of_pages_median") THEN "Beginner"
  ELSE IF book["number_of_pages_median"] > 800 THEN "Advanced"
  ELSE IF book["number_of_pages_median"] > 400 THEN "Intermediate"
  ELSE "Beginner"

\* C7: get_reading_level, alone and inside format_book, returns "Advanced"
\* above 800 pages, "Intermediate" above 400 and up to 800, "Beginner"
\* otherwise; exactly 400 is "Beginner", exactly 800 is "Intermediate", 0 pages
\* or no page count is "Beginner".
C7_ReadingLevel ==
  LET level == IF pc = "get_reading_level" THEN ret[1] ELSE ret[1].level
      has == Has(rec, "number_of_pages_median")
  IN  pc \in {"get_reading_level", "format_book"} =>
        /\ level = StatedLevel(rec)
        /\ (has /\ rec["number_of_pages_median"] = 400) => level = "Beginner"
        /\ (has /\ rec["number_of_pages_median"] = 800) => level = "Intermediate"
        /\ (has /\ rec["number_of_pages_median"] = 0) => level = "Beginner"
        /\ ~has => level = "Beginner"

\* a record of exactly 800 pages has been classified
C7_Witness ==
  /\ pc = "get_reading_level"
  /\ Has(rec, "number_of_pages_median") /\ rec["number_of_pages_median"] = 800
  /\ ret = Some("Intermediate")

\* a field of volumeInfo, 0 when absent
Info(item, k) == Num(item.volumeInfo, k)

\* C4: the books-catalog score is min(rating, 5)/5 x 50 if a rating is
\* present, plus min(rating-count/10, 30) if a count is present, plus
\* min(page-count/100, 10) if a page count is present, plus 10 with at least
\* one category, rounded to 2 decimals; rating 3, 50 ratings, 250 pages and one
\* category give 47.5.
C4_GoogleScore ==
  pc = "calculate_popularity" =>
    /\ ret[1] = Round2(Min(Info(rec, "averageRating"), 5000) * 10
                       + Min(Info(rec, "ratingsCount") * 100, 30000)
                       + Min(Info(rec, "pageCount") * 10, 10000)
                       + (IF SeqSet(rec.volumeInfo, "categories") THEN 10000 ELSE 0))
    /\ ( /\ Info(rec, "averageRating") = 3000 /\ Info(rec, "ratingsCount") = 50
         /\ Info(rec, "pageCount") = 250
         /\ Has(rec.volumeInfo, "categories") /\ Len(rec.volumeInfo["categories"]) = 1 )
       => ret[1] = 4750

\* the scenario book has been scored 47.5
C4_Witness ==
  /\ pc = "calculate_popularity"
  /\ Info(rec, "averageRating") = 3000 /\ Info(rec, "ratingsCount") = 50
  /\ Info(rec, "pageCount") = 250
  /\ Has(rec.volumeInfo, "categories") /\ Len(rec.volumeInfo["categories"]) = 1
  /\ ret = Some(4750)

RECURSIVE Flat(_)
\* the pieces of a str run together
Flat(str) == IF str = <<>> THEN "" ELSE Head(str) \o Flat(Tail(str))

RECURSIVE AndAll(_)
\* clauses joined by " AND "
AndAll(clauses) ==
  IF Len(clauses) = 1 THEN clauses[1]
  ELSE clauses[1] \o " AND " \o AndAll(Tail(clauses))

\* C8: the query is the free text (if any) followed by author:"..",
\* title:"..", subject:".." and language:.. (unquoted), one clause per
\* non-empty facet in that order, joined by " AND "; with nothing given it is
\* "*"; author Tolkien and title Hobbit give author:"Tolkien" AND
\* title:"Hobbit".
C8_Query ==
  pc = "search_books" =>
    LET clauses ==
          SelectSeq(<< Flat(rec.query),
                       IF rec.author = <<>> THEN ""
                         ELSE "author:\"" \o Flat(rec.author) \o "\"",
                       IF rec.title = <<>> THEN ""
                         ELSE "title:\"" \o Flat(rec.title) \o "\"",
                       IF rec.subject = <<>> THEN ""
                         ELSE "subject:\"" \o Flat(rec.subject) \o "\"",
                       IF rec.language = <<>> THEN ""
                         ELSE "language:" \o Flat(rec.language) >>,
                    LAMBDA c : c # "")
    IN  /\ Flat(ret[1]) = IF clauses = <<>> THEN "*" ELSE AndAll(clauses)
        /\ ( /\ rec.query = <<>> /\ rec.author = Tolkien /\ rec.title = Hobbit
             /\ rec.subject = <<>> /\ rec.language = <<>> )
           => Flat(ret[1]) = "author:\"Tolkien\" AND title:\"Hobbit\""

\* the query of author Tolkien, title Hobbit and language en has been built
C8_Witness ==
  /\ pc = "search_books"
  /\ rec.query = <<>> /\ rec.author = Tolkien /\ rec.title = Hobbit
  /\ rec.subject = <<>> /\ rec.language = <<"e", "n">>
  /\ Flat(ret[1]) = "author:\"Tolkien\" AND title:\"Hobbit\" AND language:en"

-----------------------------------------------------------------------------
(* Claims about the runs *)

Fetched == pc \in {"fetched", "formatted", "html", "done"} /\ results # None

\* the try block of the fetch raised: the request, the status check or the
\* JSON parse failed, or (books-catalog source) an item could not be reshaped
FetchFailed ==
  /\ Has(http, "outcome")
  /\ \/ http.outcome # "ok"
     \/ /\ prog = "google" /\ http.items # None
        /\ \E i \in 1..Len(Take(http.items[1], GoogleLimit(req))) :
             Reshape(http.items[1][i]).raised

\* the fetch returned the empty-results value
EmptyResults ==
  IF prog = "library" THEN results = Some([docs |-> <<>>, numFound |-> 0])
  ELSE results = Some(<<>>)

\* C1: no failure leaves the fetch; when the request, the status check, the
\* JSON parse or the reshaping of an item raises, the fetch returns docs = []
\* and numFound = 0 (library) or [] (books-catalog) and the run goes on.
C1_FetchNeverRaises ==
  /\ pc # "crashed"
  /\ FetchFailed => (Fetched /\ EmptyResults)

\* a books-catalog run has ended after an item of a good response could not be
\* reshaped
C1_Witness ==
  /\ pc = "done" /\ prog = "google"
  /\ FetchFailed /\ http.outcome = "ok"
  /\ results = Some(<<>>)

\* the fetch yielded no result
NoResults ==
  /\ Fetched
  /\ IF prog = "library" THEN results[1].docs = <<>> ELSE results[1] = <<>>

\* C2: when the fetch yields an empty result set, by zero matches or by a
\* failed request alike, the run writes no HTML file and no CSV file and builds
\* no Book.
C2_NoReportWithoutResults ==
  NoResults => (htmlFile = None /\ csvFile = None /\ books = <<>> /\ pc \in {"fetched", "done"})

\* a library run has ended after a non-2xx status, with no file written
C2_Witness ==
  /\ pc = "done" /\ prog = "library"
  /\ http.outcome = "status"
  /\ NoResults /\ htmlFile = None /\ csvFile = None

\* a str holds a character that html.escape rewrites
Raw(str) == \E i \in 1..Len(str) : str[i] \in {"<", ">", "&", "\"", "'"}

\* the slots of a card filled with text of the provider (not the URLs)
TextSlots(card) ==
  IF prog = "library" THEN {card.title, card.authors, card.subjects}
  ELSE {card.title, card.authors, card.publisher, card.publishedDate, card.isbns,
        card.desc} \cup {card.cats[i] : i \in 1..Len(card.cats)}

\* C9: in the HTML of both serializers the echoed query and every text of the
\* provider is escaped; no <, >, & or quote character of a field reaches the
\* document, except inside the URLs.
C9_AllTextEscaped ==
  htmlFile # None =>
    /\ ~Raw(htmlFile[1].query)
    /\ \A i \in 1..Len(htmlFile[1].cards) :
         \A slot \in TextSlots(htmlFile[1].cards[i]) : ~Raw(slot)

\* the card the serializer of the running program makes of a Book
CardOf(book) == IF prog = "library" THEN LibraryCard(book) ELSE make_card(book)

\* the row the CSV serializer of the running program makes of a Book
RowOf(book) == IF prog = "library" THEN LibraryRow(book) ELSE GoogleRow(book)

\* C10: the HTML file has one card per Book and the CSV file one data row per
\* Book, the i-th card and the i-th row being those of the i-th Book.
C10_OnePerBookInOrder ==
  /\ htmlFile # None =>
       /\ Len(htmlFile[1].cards) = Len(books)
       /\ htmlFile[1].showing = Len(books)
       /\ \A i \in 1..Len(books) : htmlFile[1].cards[i] = CardOf(books[i])
  /\ csvFile # None =>
       /\ Len(csvFile[1].rows) = Len(books)
       /\ \A i \in 1..Len(books) : csvFile[1].rows[i] = RowOf(books[i])

\* a run has written both files from two different Books
C10_Witness ==
  /\ pc = "done" /\ htmlFile # None /\ csvFile # None
  /\ Len(books) = 2 /\ books[1] # books[2]
  /\ CardOf(books[1]) # CardOf(books[2]) /\ RowOf(books[1]) # RowOf(books[2])

\* a str holds the piece str(None)
RendersNone(str) == \E i \in 1..Len(str) : str[i] = "None"

\* the slots of a card filled from the optional fields of a Book: year, page
\* count, rating and rating count, cover, publisher, published date, link, ISBNs
OptionalSlots(card) ==
  IF prog = "library"
  THEN {card.year, card.pages, card.rating, card.rating_count, card.cover}
  ELSE {card.publisher, card.publishedDate, card.href, card.pages, card.rating,
        card.isbns, card.cover}

\* C11: in the HTML report an optional field that the raw record lacks is
\* rendered as a placeholder; no slot of an optional field holds the text
\* "None".
C11_NoNoneRendered ==
  htmlFile # None =>
    \A i \in 1..Len(htmlFile[1].cards) :
      /\ \A slot \in OptionalSlots(htmlFile[1].cards[i]) : ~RendersNone(slot)
      /\ (prog = "library" /\ books[i].first_year = None)
           => htmlFile[1].cards[i].year = <<"Unknown">>
      /\ (prog = "library" /\ books[i].rating = None)
           => htmlFile[1].cards[i].rating = <<"N/A">>
      /\ (prog = "google" /\ books[i].pageCount = None)
           => htmlFile[1].cards[i].pages = <<"?">>

\* the Book list normalization builds of what the fetch returned
Normalized ==
  IF prog = "library"
  THEN [i \in 1..Len(results[1].docs) |-> format_book(results[1].docs[i])]
  ELSE results[1]

\* the run obtained a non-empty Book list
HasBooks == Fetched /\ ~NoResults /\ (prog = "library" => pc # "fetched")

\* both files describe the same Books with the same popularity
SameBooks ==
  /\ Len(htmlFile[1].cards) = Len(csvFile[1].rows)
  /\ \A i \in 1..Len(csvFile[1].rows) :
       /\ htmlFile[1].cards[i].title = Escape(csvFile[1].rows[i].title)
       /\ htmlFile[1].cards[i].score = FloatStr(csvFile[1].rows[i].popularity, 100)
       /\ htmlFile[1].cards[i].score = FloatStr(RowOf(Normalized[i]).popularity, 100)

\* the list is the one normalization built, and each file, once written,
\* was written from it
FromOneList ==
  /\ books = Normalized
  /\ pc \in {"fetched", "formatted"} => (htmlFile = None /\ csvFile = None)
  /\ pc = "html" => (htmlFile # None /\ csvFile = None)
  /\ htmlFile # None =>
       htmlFile[1].cards = [i \in 1..Len(Normalized) |-> CardOf(Normalized[i])]
  /\ csvFile # None =>
       /\ csvFile[1].rows = [i \in 1..Len(Normalized) |-> RowOf(Normalized[i])]
       /\ htmlFile # None /\ SameBooks

\* C12 as stated: a run that obtains a non-empty Book list builds it once,
\* leaves it unchanged, and at its end has written both the HTML file and the
\* CSV file from it, with the same Books and the same popularity scores.
C12_AsStated ==
  HasBooks =>
    /\ FromOneList
    /\ pc = "done" => (htmlFile # None /\ csvFile # None)

\* C12 as amended: a run that obtains a non-empty Book list builds it once and
\* leaves it unchanged; it writes the HTML file from it, and the CSV file from
\* the same list except in a flag-driven books-catalog run without --csv, which
\* writes no CSV file; the files written hold the same Books with the same
\* popularity scores.
C12_OneListBothRenderers ==
  HasBooks =>
    /\ FromOneList
    /\ pc = "done" =>
         /\ htmlFile # None
         /\ csvFile # None <=> (prog = "library" \/ GoogleWritesCsv(req))

\* a library run has written both files from two different Books
C12_Witness ==
  /\ pc = "done" /\ prog = "library" /\ HasBooks
  /\ Len(books) = 2 /\ books[1].popularity # books[2].popularity
  /\ htmlFile # None /\ csvFile # None /\ SameBooks

====
